---- MODULE Spec2Model ----
(***************************************************************************)
(* Model of the AI marketing bot.                                          *)
(*                                                                         *)
(* Spec: the platform wrapper (src/twitter_api.py), the rate-limit         *)
(* handling of TwitterAPI and its four operations post_tweet, post_thread, *)
(* get_tweet_metrics and get_trending_topics.  One call of an operation    *)
(* runs from pc = "idle" to pc = "done"; every pass through an operation's *)
(* `while True` body is one action, one action per answer the platform     *)
(* client can give to the call made in that pass.                          *)
(*                                                                         *)
(* SpecRotation: the content rotation of MarketingScheduler and its two    *)
(* posting jobs (src/scheduler.py), one action per statement of a job that *)
(* calls another component.                                                *)
(*                                                                         *)
(* SpecSchedule: MarketingScheduler.run, the jobs registered with the      *)
(* schedule library and the scheduler thread polling them, over a day.     *)
(*                                                                         *)
(* SpecMetrics: one run of collect_metrics over the database of            *)
(* src/engagement_tracker.py.                                              *)
(*                                                                         *)
(* SpecStartup: main() of src/main.py, from the check of the environment   *)
(* to the running scheduler.                                               *)
(*                                                                         *)
(* SpecJobs: one posting job with the post_thread call it makes followed   *)
(* step by step and its posts stored in the database, then one run of      *)
(* collect_metrics.                                                        *)
(*                                                                         *)
(* Each specification moves its own variables and leaves the others at     *)
(* rest.                                                                   *)
(***************************************************************************)
EXTENDS Integers, Sequences, FiniteSets, TLC

VARIABLES
    max_retries,        \* TwitterAPI.max_retries
    retry_delay,        \* TwitterAPI.retry_delay
    pc,                 \* "idle", the operation being executed, or "done"
    op,                 \* the operation called ("none" before the call)
    content,            \* post_tweet: the argument
    tweets,             \* post_thread: the argument
    index,              \* post_thread: 1-based position of the for loop
    retry_count,        \* the local retry_count of the running operation
    previous_tweet_id,  \* post_thread: local previous_tweet_id (NoId is None)
    thread_metadata,    \* post_thread: local thread_metadata
    ret,                \* the value the operation returned
    calls,              \* platform client calls made by this operation, in order
    waits,              \* backoff waits performed by this operation, in order
    log,                \* kinds of the lines this operation printed
    nextId,             \* platform: the id the next created post gets
    now,                \* wall clock, in seconds
    tweet_id,           \* get_tweet_metrics: the argument
    current_category_index, \* MarketingScheduler.current_category_index
    topic_indices,      \* MarketingScheduler.topic_indices
    focus_log,          \* get_next_focus_area: what each call so far returned
    job_pc,             \* posting job: "idle" or the statement it is at
    job_name,           \* posting job: "morning", "afternoon" ("none" before)
    focus_area,         \* posting job: local focus_area
    job_tweets,         \* posting job: local tweets
    category,           \* posting job: local category
    thread_data,        \* posting job: local thread_data
    store_calls,        \* posting job: its calls of store_tweet, in order
    job_error,          \* posting job: what its except branch caught
    clock,              \* scheduling: wall clock, seconds since midnight of day 0
    started_at,         \* scheduling: the clock when run() was called
    main_pc,            \* main thread: "run" or "keep_alive"
    sched_pc,           \* scheduler thread: "unstarted", "poll", "dispatch", "job"
    next_run,           \* schedule: each registered job's next_run
    pending,            \* run_pending: the runnable jobs not yet run, in order
    poll_time,          \* run_pending: the clock when it was last called
    running,            \* the jobs whose action is executing
    runs,               \* how often each job has been run
    failed,             \* the jobs whose action has ended in its except branch
    busy_runs,          \* how many job runs have taken time
    posting_times,      \* MarketingScheduler.posting_times
    db_tweets,          \* engagement.db: the rows of table tweets
    db_metrics,         \* engagement.db: the rows of table engagement_metrics
    metrics_pc,         \* collect_metrics: "idle", "loop" or "done"
    recent_tweets,      \* collect_metrics: local recent_tweets
    metrics_index,      \* collect_metrics: 1-based position of the for loop
    fetches,            \* collect_metrics: its get_tweet_metrics calls, in order
    stored,             \* collect_metrics: the snapshots this run has stored
    metrics_error,      \* collect_metrics: what its except branch caught
    env,                \* main: the environment after load_dotenv()
    startup_pc,         \* main: "verify", "create", "run", "running", "exited"
    reported,           \* main: the names printed as missing, in order
    exit_status,        \* main: the process's exit status (-1 while it runs)
    created             \* main: the components constructed so far

\* The wrapper's variables, the rotation state, a posting job's variables.
wrapper == << max_retries, retry_delay, pc, op, content, tweets, index,
              retry_count, previous_tweet_id, thread_metadata, ret, calls, waits,
              log, nextId, now, tweet_id >>
rotation == << current_category_index, topic_indices, focus_log >>
job == << job_pc, job_name, focus_area, job_tweets, category, thread_data,
          store_calls, job_error >>

scheduling == << clock, started_at, main_pc, sched_pc, next_run, pending,
                 poll_time, running, runs, failed, busy_runs, posting_times >>

collecting == << db_tweets, db_metrics, metrics_pc, recent_tweets, metrics_index,
                 fetches, stored, metrics_error >>
startup == << env, startup_pc, reported, exit_status, created >>

\* Everything outside the wrapper, the posting jobs, the scheduling, the
\* metrics collection, the startup.
app == << rotation, job, scheduling, collecting, startup >>
not_posting == << wrapper, scheduling, collecting, startup >>
not_scheduling == << wrapper, rotation, job, collecting, startup >>
not_collecting == << wrapper, rotation, job, scheduling, startup >>
not_startup == << wrapper, rotation, job, scheduling, collecting >>

vars == << wrapper, app >>

(***************************************************************************)
(* Program constants and bounds of the model.                              *)
(***************************************************************************)
MaxTweetLen == 280
DefaultMaxRetries == 3
DefaultRetryDelay == 5

MaxThreadLen == 3       \* longest thread handed to post_thread
MaxCalls == 6           \* platform client calls followed within one operation

NoId == 0               \* Python None as a post id; platform ids are >= 1

\* A text is held run-length encoded: a sequence of runs [c, n], n >= 1
\* copies of the string c; the empty sequence is the empty string.  StrLen is
\* Python's len() of the string: the sum of the runs.
RECURSIVE StrLen(_)
StrLen(t) == IF t = << >> THEN 0 ELSE Len(Head(t).c) * Head(t).n + StrLen(Tail(t))

\* The text of n copies of character c.
Rep(c, n) == IF n = 0 THEN << >> ELSE << [c |-> c, n |-> n] >>

\* Texts handed to post_tweet: empty, one character, exactly at the limit
\* (two different texts) and one character over the limit.
SampleTexts == { Rep("a", 0), Rep("a", 1), Rep("a", MaxTweetLen),
                 Rep("b", MaxTweetLen), Rep("a", MaxTweetLen + 1) }

\* Items of the threads handed to post_thread: short, exactly at the limit,
\* over the limit.
ThreadTexts == { Rep("a", 1), Rep("b", MaxTweetLen), Rep("a", MaxTweetLen + 1) }

\* Threads of at most n items.
Threads(n) == UNION { [1..k -> ThreadTexts] : k \in 0..n }

\* Constructor arguments: the defaults, no retries at all, a shorter delay.
RetryArgs == { 0, DefaultMaxRetries }
DelayArgs == { 2, DefaultRetryDelay }

RECURSIVE Pow2(_)
Pow2(n) == IF n = 0 THEN 1 ELSE 2 * Pow2(n - 1)

\* Return values.
None == [tag |-> "None"]
Unset == [tag |-> "unset"]
List(items) == [tag |-> "list", items |-> items]

(***************************************************************************)
(* Pure pieces of the code.                                                *)
(***************************************************************************)
\* Python truthiness of a str: `not content` is true of the empty string.
Truthy(s) == StrLen(s) > 0

\* Mutant of InvalidLength: empty content passes.
InvalidLength_EmptyAllowed(c) == StrLen(c) > MaxTweetLen

\* Mutant of InvalidLength: the limit off by one.
InvalidLength_OffByOne(c) == ~Truthy(c) \/ StrLen(c) > MaxTweetLen + 1

\* post_tweet's guard `not content or len(content) > 280`.
InvalidLength(c) == ~Truthy(c) \/ StrLen(c) > MaxTweetLen

\* post_thread's guard `len(tweet) > 280`.
ExceedsLimit(t) == StrLen(t) > MaxTweetLen

\* _handle_rate_limit: `retry_count >= self.max_retries` returns False.
ShouldRetry(rc) == ~(rc >= max_retries)

\* Mutant of WaitTime: linear instead of exponential backoff.
WaitTime_Linear(rc) == retry_delay * (rc + 1)

\* _handle_rate_limit: wait_time = self.retry_delay * (2 ** retry_count).
WaitTime(rc) == retry_delay * Pow2(rc)

\* Mutant of ReplyTo: the parent is never passed.
ReplyTo_Never(prev) == NoId

\* post_thread: `if previous_tweet_id:` passes in_reply_to_tweet_id, else the
\* call has no parent (NoId).
ReplyTo(prev) == IF prev # NoId THEN prev ELSE NoId

\* The dict post_tweet and post_thread build for a created post.
Metadata(id, text) ==
    [tag |-> "dict", id |-> id, text |-> text, created_at |-> now]

\* The dict get_tweet_metrics builds from response['data']['public_metrics'].
MetricsDict(m) ==
    [tag |-> "dict", likes |-> m.like_count, retweets |-> m.retweet_count,
     replies |-> m.reply_count, quotes |-> m.quote_count, collected_at |-> now]

\* public_metrics the platform reports.
SampleMetrics ==
    { [like_count |-> 0, retweet_count |-> 0, reply_count |-> 0, quote_count |-> 0],
      [like_count |-> 3, retweet_count |-> 2, reply_count |-> 1, quote_count |-> 4] }

\* Ids handed to get_tweet_metrics and trend lists the platform reports.
SampleTweetIds == { 1, 2 }
SampleTrends == { << "#ai" >>, << "#ai", "#ml" >> }

\* One call of the platform client: which endpoint, for which thread item
\* (0 outside post_thread), with which text and parent, and what came back.
Call(api, i, text, parent, resp, id) ==
    [api |-> api, index |-> i, text |-> text, in_reply_to |-> parent,
     resp |-> resp, id |-> id]

\* The operation calls the platform client and gets resp (and id) back.  The
\* model follows an operation for MaxCalls calls.
ClientCall(api, i, text, parent, resp, id) ==
    /\ Len(calls) < MaxCalls
    /\ calls' = Append(calls, Call(api, i, text, parent, resp, id))

\* The calls made for thread item i, and the rate-limited ones among them.
CallsOf(i) == { k \in 1..Len(calls) : calls[k].index = i }
RateCallsOf(i) == { k \in CallsOf(i) : calls[k].resp = "rate" }

(***************************************************************************)
(* MarketingScheduler.__init__: the focus areas and the rotation state.    *)
(***************************************************************************)
\* self.categories: the keys of ai_focus_areas in insertion order.
categories ==
    << "AI Development", "Enterprise AI", "AI Security", "AI Innovation",
       "AI Ethics & Future" >>

\* self.ai_focus_areas.
ai_focus_areas ==
    [c \in { categories[i] : i \in 1..Len(categories) } |->
        CASE c = "AI Development" ->
               << "How GPT-4 is revolutionizing code generation and pair programming",
                  "The rise of AI-powered IDEs and developer productivity tools",
                  "Automated code review and quality assurance with AI",
                  "AI-driven debugging and error prediction systems",
                  "Neural architecture search and AutoML in development" >>
          [] c = "Enterprise AI" ->
               << "AI-powered microservices and API design patterns",
                  "Scalable MLOps practices for enterprise applications",
                  "AI in legacy system modernization and migration",
                  "Real-time AI processing in enterprise systems",
                  "AI governance and compliance in enterprise software" >>
          [] c = "AI Security" ->
               << "AI-powered threat detection and response systems",
                  "LLM security vulnerabilities and mitigation strategies",
                  "Privacy-preserving AI development techniques",
                  "AI in code security analysis and vulnerability detection",
                  "Zero-trust architecture with AI components" >>
          [] c = "AI Innovation" ->
               << "Multimodal AI models in software development",
                  "AI agents and autonomous system design",
                  "Quantum computing integration with AI systems",
                  "Edge AI deployment strategies and patterns",
                  "AI-driven requirements analysis and specification" >>
          [] OTHER ->
               << "Responsible AI development practices and guidelines",
                  "AI bias detection and mitigation in development",
                  "The future of human-AI collaboration in coding",
                  "Sustainable and green AI development practices",
                  "AI transparency and explainability in systems" >>]

\* str.lower() of the category names.
Lower ==
    [c \in DOMAIN ai_focus_areas |->
        CASE c = "AI Development" -> "ai development"
          [] c = "Enterprise AI" -> "enterprise ai"
          [] c = "AI Security" -> "ai security"
          [] c = "AI Innovation" -> "ai innovation"
          [] OTHER -> "ai ethics & future"]

\* The rotation state after __init__ (lines 62-64); indices are 0-based as
\* in the code.
RotationInit ==
    /\ current_category_index = 0
    /\ topic_indices = [c \in DOMAIN ai_focus_areas |-> 0]
    /\ focus_log = << >>

\* No posting job has run yet.
JobInit ==
    /\ job_pc = "idle"
    /\ job_name = "none"
    /\ focus_area = ""
    /\ job_tweets = << >>
    /\ category = ""
    /\ thread_data = << >>
    /\ store_calls = << >>
    /\ job_error = "none"

\* The jobs in the order schedule_daily_posts registers them.
Jobs == << "post_morning_expert_thread", "post_afternoon_expert_thread",
           "collect_metrics" >>
JobSet == { Jobs[i] : i \in 1..Len(Jobs) }

\* A string value as its characters; a name the environment does not have.
Str(chars) == [tag |-> "str", chars |-> chars]
NotSet == [tag |-> "unset"]

\* os.getenv(name, default) of a name whose value is v.
Getenv(v, default) == IF v.tag = "unset" THEN default ELSE v

\* str.split(sep) of the characters s.
RECURSIVE Split(_, _)
Split(s, sep) ==
    IF \A i \in 1..Len(s) : s[i] # sep THEN << s >>
    ELSE LET i == CHOOSE k \in 1..Len(s) :
                      s[k] = sep /\ \A m \in 1..(k - 1) : s[m] # sep
         IN  << SubSeq(s, 1, i - 1) >> \o Split(SubSeq(s, i + 1, Len(s)), sep)

\* The default of POSTING_TIMES, '09:00,15:00'.
DefaultPostingTimes ==
    Str(<< "0", "9", ":", "0", "0", ",", "1", "5", ":", "0", "0" >>)

\* MarketingScheduler() has been constructed at the time t, POSTING_TIMES
\* having the value v; before run(): nothing registered, no scheduler thread.
SchedulingInitEnv(t, v) ==
    /\ clock = t
    /\ started_at = t
    /\ main_pc = "run"
    /\ sched_pc = "unstarted"
    /\ next_run = [j \in JobSet |-> 0]
    /\ pending = << >>
    /\ poll_time = t
    /\ running = {}
    /\ runs = [j \in JobSet |-> 0]
    /\ failed = {}
    /\ busy_runs = 0
    /\ posting_times = Split(Getenv(v, DefaultPostingTimes).chars, ",")

\* The same, POSTING_TIMES not being set.
SchedulingInit(t) == SchedulingInitEnv(t, NotSet)

\* The database holding the tweets rows T and the engagement_metrics rows M;
\* no metrics collection has run yet.
CollectingInit(T, M) ==
    /\ db_tweets = T
    /\ db_metrics = M
    /\ metrics_pc = "idle"
    /\ recent_tweets = << >>
    /\ metrics_index = 1
    /\ fetches = << >>
    /\ stored = << >>
    /\ metrics_error = "none"

\* The configuration values the components read with os.getenv.
EnvNames ==
    { "OPENAI_API_KEY", "TWITTER_API_KEY", "TWITTER_API_SECRET",
      "TWITTER_ACCESS_TOKEN", "TWITTER_ACCESS_TOKEN_SECRET",
      "TWITTER_BEARER_TOKEN" }

\* Mutant of required_vars: the bearer token is not asked for.
required_vars_NoBearer ==
    << "OPENAI_API_KEY", "TWITTER_API_KEY", "TWITTER_API_SECRET",
       "TWITTER_ACCESS_TOKEN", "TWITTER_ACCESS_TOKEN_SECRET" >>

\* main.py: the names it requires.
required_vars ==
    << "OPENAI_API_KEY", "TWITTER_API_KEY", "TWITTER_API_SECRET",
       "TWITTER_ACCESS_TOKEN", "TWITTER_ACCESS_TOKEN_SECRET",
       "TWITTER_BEARER_TOKEN" >>

\* main() is entered with the environment e.
StartupInit(e) ==
    /\ env = e
    /\ startup_pc = "verify"
    /\ reported = << >>
    /\ exit_status = -1
    /\ created = {}

\* The environment with every required value set.
FullEnv == [v \in EnvNames |-> "set"]

\* main() has found every value, built the scheduler and called its run().
StartupDone ==
    /\ env = FullEnv
    /\ startup_pc = "running"
    /\ reported = << >>
    /\ exit_status = -1
    /\ created = { "data", "MarketingScheduler" }

(***************************************************************************)
(* Initial state: a constructed TwitterAPI, no operation called yet.       *)
(***************************************************************************)
TwitterAPIInit(mr, rd) ==
    /\ max_retries = mr
    /\ retry_delay = rd
    /\ pc = "idle"
    /\ op = "none"
    /\ content = << >>
    /\ tweets = << >>
    /\ index = 1
    /\ retry_count = 0
    /\ previous_tweet_id = NoId
    /\ thread_metadata = << >>
    /\ ret = Unset
    /\ calls = << >>
    /\ waits = << >>
    /\ log = {}
    /\ nextId = 1
    /\ now = 0
    /\ tweet_id = NoId

\* The wrapper with any of the constructor arguments; the scheduler around
\* it constructed and at rest.
Init ==
    /\ \E mr \in RetryArgs, rd \in DelayArgs : TwitterAPIInit(mr, rd)
    /\ RotationInit
    /\ JobInit
    /\ SchedulingInit(0)
    /\ CollectingInit({}, {})
    /\ StartupDone

config == << max_retries, retry_delay >>
locals == << content, tweets, index, previous_tweet_id, thread_metadata, tweet_id >>

(***************************************************************************)
(* _handle_rate_limit(operation, retry_count), called for thread item i    *)
(* (0 outside post_thread), after the call numbered Len(calls) + 1 raised   *)
(* TooManyRequests: past the cap it prints and returns False; otherwise it *)
(* sleeps wait_time seconds, one second at a time, and returns True.       *)
(***************************************************************************)
handle_rate_limit(i) ==
    IF ShouldRetry(retry_count)
    THEN /\ waits' = Append(waits, [index |-> i, retry |-> retry_count,
                                    call |-> Len(calls) + 1,
                                    wait_time |-> WaitTime(retry_count)])
         /\ now' = now + WaitTime(retry_count)
         /\ log' = log \cup { "rate_limit_wait" }
    ELSE /\ waits' = waits
         /\ now' = now
         /\ log' = log \cup { "max_retries_exceeded" }

\* The operation returns v.
Return(v) == ret' = v /\ pc' = "done"

\* Mutant of RetriesExhaustedReturn: a value of its own.
RetriesExhaustedReturn_Distinct == [tag |-> "retries_exhausted"]

\* What the running operation returns when _handle_rate_limit returned False
\* (lines 112, 164, 201, 241).
RetriesExhaustedReturn ==
    CASE op = "post_thread" -> List(thread_metadata)
      [] op = "get_trending_topics" -> List(<< >>)
      [] OTHER -> None

\* What the running operation returns from its last except branch
\* (lines 120, 172, 209, 246).
HardFailureReturn ==
    CASE op = "post_thread" -> List(thread_metadata)
      [] op = "get_trending_topics" -> List(<< >>)
      [] OTHER -> None

(***************************************************************************)
(* post_tweet(content)                                                     *)
(***************************************************************************)
\* The call: the length check, then retry_count = 0.
post_tweet_call ==
    /\ pc = "idle"
    /\ \E c \in SampleTexts :
        /\ content' = c
        /\ op' = "post_tweet"
        /\ IF InvalidLength(c)
           THEN /\ log' = log \cup { "invalid_length" }
                /\ Return(None)
                /\ UNCHANGED retry_count
           ELSE /\ log' = log
                /\ pc' = "post_tweet"
                /\ ret' = ret
                /\ retry_count' = 0
    /\ UNCHANGED << app, config, tweets, index, previous_tweet_id, thread_metadata,
                    tweet_id, calls, waits, nextId, now >>

\* create_tweet answers with post data: the published item is returned.
post_tweet_ok ==
    /\ pc = "post_tweet"
    /\ ClientCall("create_tweet", 0, content, NoId, "data", nextId)
    /\ nextId' = nextId + 1
    /\ log' = log \cup { "posted" }
    /\ Return(Metadata(nextId, content))
    /\ UNCHANGED << app, config, op, locals, retry_count, waits, now >>

\* Mutant of post_tweet_nodata: a response without 'data' taken for a post.
post_tweet_nodata_as_success ==
    /\ pc = "post_tweet"
    /\ ClientCall("create_tweet", 0, content, NoId, "nodata", NoId)
    /\ log' = log \cup { "posted" }
    /\ Return(Metadata(NoId, content))
    /\ UNCHANGED << app, config, op, locals, retry_count, waits, nextId, now >>

\* create_tweet answers without 'data': None.
post_tweet_nodata ==
    /\ pc = "post_tweet"
    /\ ClientCall("create_tweet", 0, content, NoId, "nodata", NoId)
    /\ log' = log \cup { "no_data" }
    /\ Return(None)
    /\ UNCHANGED << app, config, op, locals, retry_count, waits, nextId, now >>

\* create_tweet raises tweepy.TooManyRequests.
post_tweet_rate ==
    /\ pc = "post_tweet"
    /\ ClientCall("create_tweet", 0, content, NoId, "rate", NoId)
    /\ handle_rate_limit(0)
    /\ IF ShouldRetry(retry_count)
       THEN /\ retry_count' = retry_count + 1
            /\ UNCHANGED << pc, ret >>
       ELSE /\ Return(RetriesExhaustedReturn)
            /\ UNCHANGED retry_count
    /\ UNCHANGED << app, config, op, locals, nextId >>

\* Mutant of post_tweet_error: any exception is retried like a rate limit.
post_tweet_error_retried ==
    /\ pc = "post_tweet"
    /\ ClientCall("create_tweet", 0, content, NoId, "error", NoId)
    /\ handle_rate_limit(0)
    /\ IF ShouldRetry(retry_count)
       THEN /\ retry_count' = retry_count + 1
            /\ UNCHANGED << pc, ret >>
       ELSE /\ Return(HardFailureReturn)
            /\ UNCHANGED retry_count
    /\ UNCHANGED << app, config, op, locals, nextId >>

\* create_tweet raises any other Exception.
post_tweet_error ==
    /\ pc = "post_tweet"
    /\ ClientCall("create_tweet", 0, content, NoId, "error", NoId)
    /\ log' = log \cup { "error" }
    /\ Return(HardFailureReturn)
    /\ UNCHANGED << app, config, op, locals, retry_count, waits, nextId, now >>

(***************************************************************************)
(* post_thread(tweets)                                                     *)
(***************************************************************************)
\* The item the for loop is at.
tweet == tweets[index]

\* Mutant of NextItem: the retry counter is carried over to the next item.
NextItem_KeepsRetryCount == index' = index + 1 /\ UNCHANGED retry_count

\* The for loop moves to the next item; a posted item starts with the
\* `retry_count = 0` of line 137.
NextItem == index' = index + 1 /\ retry_count' = 0

\* post_thread is entered with the list ts: an empty list returns [] at once.
post_thread_enter(ts) ==
    /\ pc = "idle"
    /\ tweets' = ts
    /\ op' = "post_thread"
    /\ IF ts = << >>
       THEN Return(List(<< >>))
       ELSE pc' = "post_thread" /\ ret' = ret
    /\ index' = 1
    /\ retry_count' = 0
    /\ previous_tweet_id' = NoId
    /\ thread_metadata' = << >>
    /\ UNCHANGED << config, content, tweet_id, calls, waits, log, nextId, now >>

\* The call, with any thread.
post_thread_call ==
    /\ \E ts \in Threads(MaxThreadLen) : post_thread_enter(ts)
    /\ UNCHANGED app

\* Mutant of post_thread_skip: an item over the limit ends the thread.
post_thread_skip_stops ==
    /\ pc = "post_thread"
    /\ index <= Len(tweets)
    /\ ExceedsLimit(tweet)
    /\ log' = log \cup { "skipping" }
    /\ Return(List(thread_metadata))
    /\ UNCHANGED << app, config, op, locals, retry_count, calls, waits, nextId, now >>

\* An item over the limit is skipped: `continue`.
post_thread_skip ==
    /\ pc = "post_thread"
    /\ index <= Len(tweets)
    /\ ExceedsLimit(tweet)
    /\ log' = log \cup { "skipping" }
    /\ index' = index + 1
    /\ UNCHANGED << app, config, op, content, tweets, previous_tweet_id, thread_metadata,
                    tweet_id, retry_count, pc, ret, calls, waits, nextId, now >>

\* create_tweet answers with post data: the item is appended, becomes the
\* parent of the next call, and the loop moves on (`break`).
post_thread_ok ==
    /\ pc = "post_thread"
    /\ index <= Len(tweets)
    /\ ~ExceedsLimit(tweet)
    /\ ClientCall("create_tweet", index, tweet,
                                   ReplyTo(previous_tweet_id), "data", nextId)
    /\ nextId' = nextId + 1
    /\ thread_metadata' = Append(thread_metadata, Metadata(nextId, tweet))
    /\ previous_tweet_id' = nextId
    /\ log' = log \cup { "posted" }
    /\ NextItem
    /\ UNCHANGED << app, config, op, content, tweets, tweet_id, pc, ret, waits, now >>

\* create_tweet answers without 'data': the `if` of line 150 has no else, so
\* the `while True` body runs again for the same item, retry_count untouched.
post_thread_nodata ==
    /\ pc = "post_thread"
    /\ index <= Len(tweets)
    /\ ~ExceedsLimit(tweet)
    /\ ClientCall("create_tweet", index, tweet,
                                   ReplyTo(previous_tweet_id), "nodata", NoId)
    /\ UNCHANGED << app, config, op, locals, retry_count, pc, ret, waits, log, nextId, now >>

\* Mutant of post_thread_rate: past the cap the loop moves to the next item.
post_thread_rate_moves_on ==
    /\ pc = "post_thread"
    /\ index <= Len(tweets)
    /\ ~ExceedsLimit(tweet)
    /\ ClientCall("create_tweet", index, tweet,
                                   ReplyTo(previous_tweet_id), "rate", NoId)
    /\ handle_rate_limit(index)
    /\ IF ShouldRetry(retry_count)
       THEN /\ retry_count' = retry_count + 1
            /\ UNCHANGED index
       ELSE NextItem
    /\ UNCHANGED << app, config, op, content, tweets, previous_tweet_id, thread_metadata,
                    tweet_id, pc, ret, nextId >>

\* create_tweet raises tweepy.TooManyRequests: back off and retry the item,
\* or return what was posted so far.
post_thread_rate ==
    /\ pc = "post_thread"
    /\ index <= Len(tweets)
    /\ ~ExceedsLimit(tweet)
    /\ ClientCall("create_tweet", index, tweet,
                                   ReplyTo(previous_tweet_id), "rate", NoId)
    /\ handle_rate_limit(index)
    /\ IF ShouldRetry(retry_count)
       THEN /\ retry_count' = retry_count + 1
            /\ UNCHANGED << pc, ret >>
       ELSE /\ Return(RetriesExhaustedReturn)
            /\ UNCHANGED retry_count
    /\ UNCHANGED << app, config, op, locals, nextId >>

\* Mutant of post_thread_error: the failed item is dropped and the loop goes on.
post_thread_error_continues ==
    /\ pc = "post_thread"
    /\ index <= Len(tweets)
    /\ ~ExceedsLimit(tweet)
    /\ ClientCall("create_tweet", index, tweet,
                                   ReplyTo(previous_tweet_id), "error", NoId)
    /\ log' = log \cup { "error" }
    /\ NextItem
    /\ UNCHANGED << app, config, op, content, tweets, previous_tweet_id, thread_metadata,
                    tweet_id, pc, ret, waits, nextId, now >>

\* create_tweet raises any other Exception: return what was posted so far.
post_thread_error ==
    /\ pc = "post_thread"
    /\ index <= Len(tweets)
    /\ ~ExceedsLimit(tweet)
    /\ ClientCall("create_tweet", index, tweet,
                                   ReplyTo(previous_tweet_id), "error", NoId)
    /\ log' = log \cup { "error" }
    /\ Return(HardFailureReturn)
    /\ UNCHANGED << app, config, op, locals, retry_count, waits, nextId, now >>

\* The for loop is exhausted: return thread_metadata.
post_thread_return ==
    /\ pc = "post_thread"
    /\ index > Len(tweets)
    /\ Return(List(thread_metadata))
    /\ UNCHANGED << app, config, op, locals, retry_count, calls, waits, log, nextId,
                    now >>

(***************************************************************************)
(* get_tweet_metrics(tweet_id)                                             *)
(***************************************************************************)
get_tweet_metrics_call ==
    /\ pc = "idle"
    /\ \E t \in SampleTweetIds : tweet_id' = t
    /\ op' = "get_tweet_metrics"
    /\ pc' = "get_tweet_metrics"
    /\ retry_count' = 0
    /\ UNCHANGED << app, config, content, tweets, index, previous_tweet_id,
                    thread_metadata, ret, calls, waits, log, nextId, now >>

get_tweet_metrics_ok ==
    /\ pc = "get_tweet_metrics"
    /\ ClientCall("get_tweet", 0, << >>, NoId, "data", tweet_id)
    /\ \E m \in SampleMetrics : Return(MetricsDict(m))
    /\ UNCHANGED << app, config, op, locals, retry_count, waits, log, nextId, now >>

get_tweet_metrics_nodata ==
    /\ pc = "get_tweet_metrics"
    /\ ClientCall("get_tweet", 0, << >>, NoId, "nodata", tweet_id)
    /\ Return(None)
    /\ UNCHANGED << app, config, op, locals, retry_count, waits, log, nextId, now >>

get_tweet_metrics_rate ==
    /\ pc = "get_tweet_metrics"
    /\ ClientCall("get_tweet", 0, << >>, NoId, "rate", tweet_id)
    /\ handle_rate_limit(0)
    /\ IF ShouldRetry(retry_count)
       THEN /\ retry_count' = retry_count + 1
            /\ UNCHANGED << pc, ret >>
       ELSE /\ Return(RetriesExhaustedReturn)
            /\ UNCHANGED retry_count
    /\ UNCHANGED << app, config, op, locals, nextId >>

get_tweet_metrics_error ==
    /\ pc = "get_tweet_metrics"
    /\ ClientCall("get_tweet", 0, << >>, NoId, "error", tweet_id)
    /\ log' = log \cup { "error" }
    /\ Return(HardFailureReturn)
    /\ UNCHANGED << app, config, op, locals, retry_count, waits, nextId, now >>

(***************************************************************************)
(* get_trending_topics(woeid)                                              *)
(***************************************************************************)
get_trending_topics_call ==
    /\ pc = "idle"
    /\ op' = "get_trending_topics"
    /\ pc' = "get_trending_topics"
    /\ retry_count' = 0
    /\ UNCHANGED << app, config, locals, ret, calls, waits, log, nextId, now >>

get_trending_topics_ok ==
    /\ pc = "get_trending_topics"
    /\ ClientCall("get_place_trends", 0, << >>, NoId, "data", NoId)
    /\ \E t \in SampleTrends : Return(List(t))
    /\ UNCHANGED << app, config, op, locals, retry_count, waits, log, nextId, now >>

get_trending_topics_rate ==
    /\ pc = "get_trending_topics"
    /\ ClientCall("get_place_trends", 0, << >>, NoId, "rate", NoId)
    /\ handle_rate_limit(0)
    /\ IF ShouldRetry(retry_count)
       THEN /\ retry_count' = retry_count + 1
            /\ UNCHANGED << pc, ret >>
       ELSE /\ Return(RetriesExhaustedReturn)
            /\ UNCHANGED retry_count
    /\ UNCHANGED << app, config, op, locals, nextId >>

\* get_place_trends raises a tweepy.TweepyException other than TooManyRequests.
get_trending_topics_error ==
    /\ pc = "get_trending_topics"
    /\ ClientCall("get_place_trends", 0, << >>, NoId, "error", NoId)
    /\ log' = log \cup { "error" }
    /\ Return(HardFailureReturn)
    /\ UNCHANGED << app, config, op, locals, retry_count, waits, nextId, now >>

\* get_place_trends (or trends[0]) raises an exception that is no
\* TweepyException: no except branch matches and it leaves the operation.
get_trending_topics_raise ==
    /\ pc = "get_trending_topics"
    /\ ClientCall("get_place_trends", 0, << >>, NoId, "error", NoId)
    /\ Return([tag |-> "raised"])
    /\ UNCHANGED << app, config, op, locals, retry_count, waits, log, nextId, now >>

(***************************************************************************)
(* The specification: one operation call on a constructed TwitterAPI.      *)
(***************************************************************************)
Next ==
    \/ post_tweet_call
    \/ post_tweet_ok
    \/ post_tweet_nodata
    \/ post_tweet_rate
    \/ post_tweet_error
    \/ post_thread_call
    \/ post_thread_skip
    \/ post_thread_ok
    \/ post_thread_nodata
    \/ post_thread_rate
    \/ post_thread_error
    \/ post_thread_return
    \/ get_tweet_metrics_call
    \/ get_tweet_metrics_ok
    \/ get_tweet_metrics_nodata
    \/ get_tweet_metrics_rate
    \/ get_tweet_metrics_error
    \/ get_trending_topics_call
    \/ get_trending_topics_ok
    \/ get_trending_topics_rate
    \/ get_trending_topics_error
    \/ get_trending_topics_raise

Spec == Init /\ [][Next]_vars

(***************************************************************************)
(* Vocabulary of the properties.                                           *)
(***************************************************************************)
Done(o) == pc = "done" /\ op = o
LastCall == calls[Len(calls)]
IsData(c) == c.resp = "data"
Fits(t) == StrLen(t) <= MaxTweetLen

\* The calls that returned post data, in order, and those among the first k.
Posted == SelectSeq(calls, IsData)
PostedBefore(k) == SelectSeq(SubSeq(calls, 1, k - 1), IsData)

\* The id of the last post created before call k of this operation; NoId
\* when there is none.
LastPostedId(k) ==
    IF PostedBefore(k) = << >> THEN NoId
    ELSE PostedBefore(k)[Len(PostedBefore(k))].id

\* The operation ended because call k, its last, got the answer r.
EndedOn(r) == pc = "done" /\ calls # << >> /\ LastCall.resp = r

\* The returned list names exactly the posts created, in posting order.
ReturnsPosted ==
    /\ ret.tag = "list"
    /\ Len(ret.items) = Len(Posted)
    /\ \A j \in 1..Len(Posted) :
        /\ ret.items[j].id = Posted[j].id
        /\ ret.items[j].text = Posted[j].text

(***************************************************************************)
(* C1: for every content longer than 280 characters post_tweet returns     *)
(* None and makes no create-post call.                                     *)
(***************************************************************************)
C1_OversizeRejectedWithoutCall ==
    (op = "post_tweet" /\ StrLen(content) > MaxTweetLen)
        => (pc = "done" /\ ret = None /\ calls = << >>)

C1_Witness ==
    Done("post_tweet") /\ StrLen(content) = MaxTweetLen + 1 /\ ret = None

(***************************************************************************)
(* C2: in post_thread an item longer than 280 characters gets no           *)
(* create-post call and does not stop the thread (a thread whose last call *)
(* succeeded, or that made no call, has gone through every item and posted *)
(* every item that fits), and every create-post call carries as parent the *)
(* id of the most recent post this thread created, none when there is no   *)
(* such post.                                                              *)
(***************************************************************************)
C2_SkipKeepsReplyChain ==
    op = "post_thread" =>
        /\ \A i \in 1..Len(tweets) : ~Fits(tweets[i]) => CallsOf(i) = {}
        /\ \A k \in 1..Len(calls) : calls[k].in_reply_to = LastPostedId(k)
        /\ (pc = "done" /\ (calls = << >> \/ LastCall.resp = "data")) =>
              \A i \in 1..Len(tweets) :
                  Fits(tweets[i]) => \E k \in CallsOf(i) : IsData(calls[k])

\* A thread valid, oversize, valid: the third item was posted as a reply to
\* the first.
C2_Witness ==
    /\ Done("post_thread")
    /\ Len(tweets) = 3
    /\ Fits(tweets[1]) /\ ~Fits(tweets[2]) /\ Fits(tweets[3])
    /\ Len(ret.items) = 2
    /\ LastCall.index = 3
    /\ LastCall.in_reply_to = ret.items[1].id
    /\ LastCall.in_reply_to # NoId

(***************************************************************************)
(* C3: when the create-post call for item k raises a non-rate-limit error, *)
(* post_thread returns exactly the items posted before it, in order - one  *)
(* for every item among the first k-1 that fits in 280 characters - and    *)
(* makes no call for a later item.                                         *)
(***************************************************************************)
C3_HardErrorReturnsPrefix ==
    (op = "post_thread" /\ EndedOn("error")) =>
        LET k == LastCall.index
            before == SelectSeq(SubSeq(tweets, 1, k - 1), Fits)
        IN  /\ ReturnsPosted
            /\ Len(ret.items) = Len(before)
            /\ \A j \in 1..Len(before) : ret.items[j].text = before[j]
            /\ \A c \in 1..Len(calls) : calls[c].index <= k

\* The error hits the third of three items that fit: two are returned.
C3_Witness ==
    /\ op = "post_thread" /\ EndedOn("error")
    /\ Len(tweets) = 3
    /\ LastCall.index = 3
    /\ Len(ret.items) = 2

(***************************************************************************)
(* C4: when the retries of a thread item are exhausted, post_thread stops  *)
(* and returns the items published so far, attempts no later item, and no  *)
(* item is posted twice: the calls never go back to an earlier item.       *)
(***************************************************************************)
C4_ExhaustionStopsNoRestart ==
    op = "post_thread" =>
        /\ \A j, k \in 1..Len(calls) : j < k =>
              /\ calls[j].index <= calls[k].index
              /\ IsData(calls[j]) => calls[j].index < calls[k].index
        /\ \A k \in 1..Len(calls) :
              (/\ calls[k].resp = "rate"
               /\ Cardinality({ j \in RateCallsOf(calls[k].index) : j <= k })
                     = max_retries + 1)
                 => k = Len(calls) /\ pc = "done"
        /\ EndedOn("rate") =>
              /\ ReturnsPosted
              /\ ret = List(thread_metadata)
              /\ \A c \in 1..Len(calls) : calls[c].index <= LastCall.index

\* The second item exhausts its retries after the first was published.
C4_Witness ==
    /\ op = "post_thread" /\ EndedOn("rate")
    /\ Len(tweets) = 3
    /\ LastCall.index = 2
    /\ Len(ret.items) = 1
    /\ Cardinality(CallsOf(2)) = max_retries + 1
    /\ max_retries = DefaultMaxRetries

(***************************************************************************)
(* C5: within one rate-limited operation (a post_tweet, one item of a      *)
(* post_thread, a get_tweet_metrics, a get_trending_topics) at most        *)
(* max_retries + 1 calls of the platform client are made.                  *)
(***************************************************************************)
C5_AtMostMaxRetriesPlusOneCalls ==
    \A i \in 0..Len(tweets) : Cardinality(CallsOf(i)) <= max_retries + 1

(***************************************************************************)
(* C6: the wait performed after the i-th rate-limit failure of an          *)
(* operation (i from 0) is retry_delay * 2^i; every rate-limit failure     *)
(* below the cap is followed by exactly that wait and none is performed    *)
(* once the retry count has reached max_retries; with the defaults the     *)
(* waits of an operation are 5, 10, 20.                                    *)
(***************************************************************************)
\* The waits performed for thread item i (0 outside post_thread), in order.
WaitsOf(i) == SelectSeq(waits, LAMBDA w : w.index = i)
Min(a, b) == IF a < b THEN a ELSE b

C6_ExponentialBackoff ==
    \A i \in 0..Len(tweets) :
        /\ Len(WaitsOf(i)) = Min(Cardinality(RateCallsOf(i)), max_retries)
        /\ \A j \in 1..Len(WaitsOf(i)) :
              /\ WaitsOf(i)[j].wait_time = retry_delay * (2 ^ (j - 1))
              /\ calls[WaitsOf(i)[j].call].resp = "rate"
        /\ (max_retries = 3 /\ retry_delay = 5) =>
              \E n \in 0..3 : [j \in 1..Len(WaitsOf(i)) |-> WaitsOf(i)[j].wait_time]
                                  = SubSeq(<< 5, 10, 20 >>, 1, n)

\* Four rate-limit failures with the defaults: waits 5, 10, 20 and no fourth.
C6_Witness ==
    /\ EndedOn("rate")
    /\ Cardinality(RateCallsOf(LastCall.index)) = 4
    /\ Len(waits) = 3
    /\ waits[1].wait_time = 5 /\ waits[2].wait_time = 10 /\ waits[3].wait_time = 20
    /\ now = 35

(***************************************************************************)
(* C7: a failure of the platform call that is not the rate-limit error     *)
(* ends the operation at once: that call is the operation's last and no    *)
(* wait follows it, however many retries remain.                           *)
(***************************************************************************)
C7_HardFailureEndsOperation ==
    \A k \in 1..Len(calls) :
        calls[k].resp = "error" =>
            /\ pc = "done"
            /\ k = Len(calls)
            /\ \A w \in 1..Len(waits) : waits[w].call < k

\* A hard failure after one rate-limited attempt, with retries remaining.
C7_Witness ==
    /\ EndedOn("error")
    /\ Len(calls) = 2
    /\ retry_count = 1
    /\ retry_count < max_retries

(***************************************************************************)
(* C8, as the specification states it: exhausting the retries gives the    *)
(* caller an outcome that differs from the outcome of a hard failure.      *)
(***************************************************************************)
C8_ExhaustionDistinguishable ==
    EndedOn("rate") => ret # HardFailureReturn

(***************************************************************************)
(* C8, amended: exhausting the retries returns to the caller the same      *)
(* value as a hard failure at the same point (None, the items posted so    *)
(* far, or the empty list); the two are told apart only in the log, where  *)
(* exhaustion alone prints the "max retries exceeded" line and a hard      *)
(* failure alone the error line.                                           *)
(***************************************************************************)
C8_ExhaustionOnlyLogged ==
    /\ EndedOn("rate") =>
          /\ ret = HardFailureReturn
          /\ "max_retries_exceeded" \in log
          /\ "error" \notin log
    /\ (EndedOn("error") /\ ret.tag # "raised") =>
          /\ "error" \in log
          /\ "max_retries_exceeded" \notin log
    /\ "max_retries_exceeded" \in log => EndedOn("rate")

C8_Witness ==
    /\ EndedOn("rate")
    /\ op = "post_thread"
    /\ Len(ret.items) = 1
    /\ "max_retries_exceeded" \in log

(***************************************************************************)
(* C9: post_tweet returns a published item - the id the platform assigned, *)
(* the submitted text, the time of creation - exactly when one of its      *)
(* create-post calls returned post data; otherwise (retries exhausted, any *)
(* other failure, no data, invalid length) it returns None and nothing was *)
(* published.                                                              *)
(***************************************************************************)
C9_PostTweetResult ==
    Done("post_tweet") =>
        /\ (ret # None) <=> (\E k \in 1..Len(calls) : IsData(calls[k]))
        /\ (ret # None) =>
              /\ IsData(LastCall)
              /\ ret = [tag |-> "dict", id |-> LastCall.id, text |-> content,
                        created_at |-> now]
              /\ ret.id # NoId
              /\ LastCall.text = content
        /\ (ret = None) => nextId = 1
        /\ thread_metadata = << >> /\ previous_tweet_id = NoId

\* Published after two rate-limited attempts.
C9_Witness ==
    /\ Done("post_tweet")
    /\ ret # None
    /\ Len(calls) = 3
    /\ ret.created_at = 15

(***************************************************************************)
(* C10: the list post_thread returns is, in posting order, exactly the     *)
(* items whose create-post call succeeded: each with the id the platform   *)
(* assigned to that call, the texts an order-preserving subsequence of the *)
(* input, each at most 280 characters long, and every element after the    *)
(* first posted as a reply to the element before it.                       *)
(***************************************************************************)
C10_ThreadResultIsReplyChain ==
    Done("post_thread") =>
        /\ ReturnsPosted
        /\ \A j \in 1..Len(Posted) :
              /\ Posted[j].index \in 1..Len(tweets)
              /\ ret.items[j].text = tweets[Posted[j].index]
              /\ StrLen(ret.items[j].text) <= MaxTweetLen
              /\ ret.items[j].id # NoId
              /\ Posted[j].in_reply_to =
                    (IF j = 1 THEN NoId ELSE ret.items[j - 1].id)
        /\ \A j, k \in 1..Len(Posted) :
              j < k => /\ Posted[j].index < Posted[k].index
                       /\ ret.items[j].id # ret.items[k].id

\* Three different results: all three items published as one chain.
C10_Witness ==
    /\ Done("post_thread")
    /\ Len(tweets) = 3
    /\ Len(ret.items) = 3
    /\ tweets[1] # tweets[2]
    /\ Len(calls) > 3

(***************************************************************************)
(* The content rotation and the posting jobs of MarketingScheduler.        *)
(***************************************************************************)
MaxFocusCalls == 27     \* get_next_focus_area calls followed

\* Lists generate_ai_expert_thread returns, the stripped non-empty lines of
\* the completion: none, two short lines, one line exactly at the limit.
GeneratedThreads ==
    { << >>, << Rep("a", 1), Rep("b", 1) >>, << Rep("a", MaxTweetLen) >> }

PostingJobs == { "morning", "afternoon" }

\* Mutants of NextTopicIndex: the cursor stays; the cursor does not wrap.
NextTopicIndex_Stays(i, n) == i
NextTopicIndex_NoWrap(i, n) == i + 1

\* Line 77: (current_topic_index + 1) % len(topics).
NextTopicIndex(i, n) == (i + 1) % n

\* Mutant of NextCategoryIndex: every second category.
NextCategoryIndex_ByTwo(i, n) == (i + 2) % n

\* Line 78: (self.current_category_index + 1) % len(self.categories).
NextCategoryIndex(i, n) == (i + 1) % n

\* Mutant of LabelCategoryIndex: the cursor itself.
LabelCategoryIndex_Current(i, n) == i

\* Lines 102, 124: (self.current_category_index - 1) % len(self.categories).
LabelCategoryIndex(i, n) == (i - 1) % n

\* Lines 103, 125: what is put in front of tweets[0]; "*" stands for the one
\* emoji character of the job.
Prefix(j, c) ==
    IF j = "morning" THEN "* " \o c \o " Insights:\n"
    ELSE "* " \o c \o " Deep Dive:\n"

\* Lines 109, 131: the type the job's posts are stored under.
TypeTag(j, c) == "expert_thread_" \o j \o "_" \o Lower[c]

\* What post_thread can hand back for the thread ts: the items it posted,
\* those of the first k items that fit, for any k.
PostThreadResults(ts) ==
    { LET posted == SelectSeq(SubSeq(ts, 1, k), LAMBDA t : ~ExceedsLimit(t))
      IN  [j \in 1..Len(posted) |-> Metadata(j, posted[j])] : k \in 0..Len(ts) }

\* get_next_focus_area(), its result assigned to the job's focus_area.
get_next_focus_area ==
    LET current_category == categories[current_category_index + 1]
        topics == ai_focus_areas[current_category]
        current_topic_index == topic_indices[current_category]
    IN  /\ focus_area' = topics[current_topic_index + 1]
        /\ topic_indices' =
             [topic_indices EXCEPT ![current_category] =
                 NextTopicIndex(current_topic_index, Len(topics))]
        /\ current_category_index' =
             NextCategoryIndex(current_category_index, Len(categories))
        /\ focus_log' = Append(focus_log, [category |-> current_category,
                                           topic |-> topics[current_topic_index + 1]])

\* The job ends: normally, or in its except branch having caught e.
JobReturns(e) == job_pc' = "idle" /\ job_error' = e

\* The scheduler runs a posting job: its first statement is the rotation step.
post_expert_thread_call ==
    /\ job_pc = "idle"
    /\ Len(focus_log) < MaxFocusCalls
    /\ \E j \in PostingJobs : job_name' = j
    /\ get_next_focus_area
    /\ job_pc' = "generate"
    /\ job_tweets' = << >>
    /\ category' = ""
    /\ thread_data' = << >>
    /\ store_calls' = << >>
    /\ job_error' = "none"
    /\ UNCHANGED not_posting

\* generate_ai_expert_thread returns a list.
post_expert_thread_generate ==
    /\ job_pc = "generate"
    /\ \E ts \in GeneratedThreads : job_tweets' = ts
    /\ job_pc' = "label"
    /\ UNCHANGED << not_posting, rotation, job_name, focus_area, category,
                    thread_data, store_calls, job_error >>

\* Mutant of post_expert_thread_generate_raise: the except branch hands the
\* category back to the rotation.
post_expert_thread_generate_raise_GivesBack ==
    /\ job_pc = "generate"
    /\ JobReturns("generate")
    /\ current_category_index' = (current_category_index - 1) % Len(categories)
    /\ UNCHANGED << not_posting, topic_indices, focus_log, job_name, focus_area,
                    job_tweets, category, thread_data, store_calls >>

\* generate_ai_expert_thread raises.
post_expert_thread_generate_raise ==
    /\ job_pc = "generate"
    /\ JobReturns("generate")
    /\ UNCHANGED << not_posting, rotation, job_name, focus_area, job_tweets,
                    category, thread_data, store_calls >>

\* The category is looked up and put in front of tweets[0]; an empty list
\* raises IndexError there.
post_expert_thread_label ==
    /\ job_pc = "label"
    /\ category' = categories[LabelCategoryIndex(current_category_index,
                                                 Len(categories)) + 1]
    /\ IF job_tweets = << >>
       THEN /\ JobReturns("IndexError")
            /\ UNCHANGED job_tweets
       ELSE /\ job_tweets' =
                 [job_tweets EXCEPT ![1] =
                     << [c |-> Prefix(job_name, category'), n |-> 1] >> \o @]
            /\ job_pc' = "post"
            /\ UNCHANGED job_error
    /\ UNCHANGED << not_posting, rotation, job_name, focus_area, thread_data,
                    store_calls >>

\* post_thread(tweets); an empty result ends the job.
post_expert_thread_post ==
    /\ job_pc = "post"
    /\ \E r \in PostThreadResults(job_tweets) :
        /\ thread_data' = r
        /\ IF r # << >>
           THEN job_pc' = "store" /\ UNCHANGED job_error
           ELSE JobReturns("none")
    /\ UNCHANGED << not_posting, rotation, job_name, focus_area, job_tweets,
                    category, store_calls >>

\* The loop over thread_data: store_tweet succeeds for the first k items and
\* raises for the next one, or succeeds for all.
StoreLoop(k) ==
    /\ job_pc = "store"
    /\ store_calls' =
         [i \in 1..(IF k < Len(thread_data) THEN k + 1 ELSE k) |->
             [tweet_data |-> thread_data[i],
              tweet_type |-> TypeTag(job_name, category),
              raised |-> i > k]]
    /\ JobReturns(IF k < Len(thread_data) THEN "store_tweet" ELSE "none")
    /\ UNCHANGED << rotation, job_name, focus_area, job_tweets, category,
                    thread_data >>

\* The loop with the storage left out of account.
post_expert_thread_store ==
    /\ \E k \in 0..Len(thread_data) : StoreLoop(k)
    /\ UNCHANGED not_posting

\* A constructed MarketingScheduler: its TwitterAPI has the default arguments.
InitRotation ==
    /\ TwitterAPIInit(DefaultMaxRetries, DefaultRetryDelay)
    /\ RotationInit
    /\ JobInit
    /\ SchedulingInit(0)
    /\ CollectingInit({}, {})
    /\ StartupDone

NextRotation ==
    \/ post_expert_thread_call
    \/ post_expert_thread_generate
    \/ post_expert_thread_generate_raise
    \/ post_expert_thread_label
    \/ post_expert_thread_post
    \/ post_expert_thread_store

SpecRotation == InitRotation /\ [][NextRotation]_vars

(***************************************************************************)
(* Vocabulary of the rotation properties.                                  *)
(***************************************************************************)
NumCategories == Len(categories)
TopicsPerCategory == Len(ai_focus_areas[categories[1]])
RotationPeriod == NumCategories * TopicsPerCategory

\* Every (category, topic) pair of ai_focus_areas.
AllPairs ==
    UNION { { [category |-> c, topic |-> ai_focus_areas[c][i]] :
                i \in 1..Len(ai_focus_areas[c]) } : c \in DOMAIN ai_focus_areas }

\* The category whose topic list contains the topic t.
CategoryOf(t) ==
    CHOOSE c \in DOMAIN ai_focus_areas :
        \E i \in 1..Len(ai_focus_areas[c]) : ai_focus_areas[c][i] = t

\* What the rotation step of the running (or last) job consumed.
Consumed == focus_log[Len(focus_log)]

(***************************************************************************)
(* C11: the first (topics per category x categories) calls of              *)
(* get_next_focus_area from the initial rotation state return every topic  *)
(* of every category exactly once, no (category, topic) pair twice before  *)
(* all have been returned; 5 categories of 5 topics give 25 distinct pairs *)
(* in 25 calls.                                                            *)
(***************************************************************************)
C11_EveryTopicOncePerCycle ==
    LET n == Min(Len(focus_log), RotationPeriod)
    IN  /\ \A i \in 1..n : focus_log[i] \in AllPairs
        /\ \A i, j \in 1..n : i # j => focus_log[i] # focus_log[j]
        /\ n = RotationPeriod => { focus_log[i] : i \in 1..n } = AllPairs
        /\ Cardinality(AllPairs) = RotationPeriod

C11_Witness ==
    /\ Len(focus_log) = RotationPeriod
    /\ Cardinality({ focus_log[i] : i \in 1..Len(focus_log) }) = 5 * 5

(***************************************************************************)
(* C12: the n-th call of get_next_focus_area, n counted from 0, returns    *)
(* the topic at index floor(n / C) mod T of category n mod C, whatever the *)
(* jobs calling it did; the sequence has period C * T, so the 26th call    *)
(* returns what the 1st returned.                                          *)
(***************************************************************************)
C12_ResultDependsOnCallCountOnly ==
    \A n \in 0..(Len(focus_log) - 1) :
        LET c == categories[(n % NumCategories) + 1]
        IN  /\ focus_log[n + 1].category = c
            /\ focus_log[n + 1].topic =
                 ai_focus_areas[c][((n \div NumCategories) % TopicsPerCategory) + 1]
            /\ n >= RotationPeriod =>
                 focus_log[n + 1] = focus_log[n + 1 - RotationPeriod]

C12_Witness ==
    /\ Len(focus_log) = RotationPeriod + 1
    /\ focus_log[RotationPeriod + 1] = focus_log[1]
    /\ job_error # "none"

(***************************************************************************)
(* C13: in every reachable state the category cursor is a valid index into *)
(* the category list and each category's topic cursor is a valid index     *)
(* into that category's topic list.                                        *)
(***************************************************************************)
C13_CursorsAreValidIndices ==
    /\ current_category_index \in 0..(Len(categories) - 1)
    /\ \A c \in DOMAIN ai_focus_areas :
        topic_indices[c] \in 0..(Len(ai_focus_areas[c]) - 1)

\* Both kinds of cursor have wrapped around.
C13_Witness ==
    /\ Len(focus_log) >= RotationPeriod
    /\ current_category_index = 0
    /\ \A c \in DOMAIN ai_focus_areas : topic_indices[c] = 0

(***************************************************************************)
(* C14: the category a posting job labels its content with, in the prefix  *)
(* of the first tweet and in the type its posts are stored under, is the   *)
(* category its rotation step consumed, the one whose topic list contains  *)
(* the topic returned to the job.                                          *)
(***************************************************************************)
C14_LabelIsConsumedCategory ==
    category # "" =>
        /\ focus_area = Consumed.topic
        /\ category = Consumed.category
        /\ category = CategoryOf(focus_area)
        /\ job_tweets # << >> =>
             Head(job_tweets[1]).c = Prefix(job_name, CategoryOf(focus_area))
        /\ \A i \in 1..Len(store_calls) :
             store_calls[i].tweet_type = TypeTag(job_name, CategoryOf(focus_area))

\* A job that consumed the last category, the cursor wrapped to 0, labelled
\* and stored its posts.
C14_Witness ==
    /\ category = categories[Len(categories)]
    /\ current_category_index = 0
    /\ job_tweets # << >>
    /\ store_calls # << >>
    /\ job_name = "afternoon"

(***************************************************************************)
(* MarketingScheduler.run: the registered jobs and the scheduler thread.   *)
(* A job registered with the schedule library has a next_run time;          *)
(* run_pending() runs, one after another and ordered by next_run, the jobs *)
(* whose next_run is not later than the clock, and gives each job it has   *)
(* run its next next_run, counted from the moment the job returned.        *)
(***************************************************************************)
PollInterval == 60      \* time.sleep(60) of run_scheduler
IntervalHours == 2      \* schedule.every(2).hours
MaxHours == 24          \* hours of polling followed after run()
MaxBusyRuns == 1        \* job runs that take time
JobSeconds == 90        \* what such a run takes: longer than a poll interval

Hour == 60 * 60
Day == 24 * Hour

\* "HH:MM" as seconds since midnight.
HHMM(h, m) == (h * 60 + m) * 60

\* The times of day the daily jobs are registered at (lines 85, 88).
AtTime ==
    [j \in { Jobs[1], Jobs[2] } |-> IF j = Jobs[1] THEN HHMM(9, 0) ELSE HHMM(15, 0)]

\* The clock when run() is called: midnight, half a minute before and
\* exactly at the morning job's time.
StartTimes == { 0, HHMM(7, 1), HHMM(9, 0) - 30, HHMM(9, 0) }

\* POSTING_TIMES: not set, or set to '10:00,16:00'.
PostingTimesValues ==
    { NotSet, Str(<< "1", "0", ":", "0", "0", ",", "1", "6", ":", "0", "0" >>) }

\* How long a job run takes.
Durations == { 0, JobSeconds }

\* A daily job's next_run computed at time t: its time of day on the day of
\* t if that is still ahead, else on the next day.
NextDaily(at, t) ==
    IF at > t % Day THEN (t \div Day) * Day + at ELSE (t \div Day + 1) * Day + at

\* Mutant of NextInterval: every three hours.
NextInterval_ThreeHours(t) == t + (IntervalHours + 1) * Hour

\* An interval job's next_run computed at time t.
NextInterval(t) == t + IntervalHours * Hour

\* Job._schedule_next_run at time t.
ScheduleNextRun(j, t) ==
    IF j \in DOMAIN AtTime THEN NextDaily(AtTime[j], t) ELSE NextInterval(t)

\* Mutant of ShouldRun: a job runs only at a poll on its very second.
ShouldRun_OnTheSecond(j, t) == t = next_run[j]

\* Job.should_run at the time t.
ShouldRun(j, t) == t >= next_run[j]

\* sorted(runnable_jobs): by next_run, jobs registered first before others.
Registered(j) == CHOOSE i \in 1..Len(Jobs) : Jobs[i] = j
RunsBefore(x, y) ==
    \/ next_run[x] < next_run[y]
    \/ next_run[x] = next_run[y] /\ Registered(x) <= Registered(y)
RECURSIVE SortJobs(_)
SortJobs(S) ==
    IF S = {} THEN << >>
    ELSE LET first == CHOOSE x \in S : \A y \in S : RunsBefore(x, y)
         IN  << first >> \o SortJobs(S \ { first })

\* Mutant of Escaping: the job has no except branch.
Escaping_Uncaught(e) == e

\* What leaves a job whose body raised e: `except Exception` (lines 112,
\* 134, 149) catches it and the job returns normally.
Escaping(e) == "none"

\* run(): schedule_daily_posts(), then the scheduler thread is started and
\* the main thread stays in its keep-alive loop, which touches nothing.
run ==
    /\ main_pc = "run"
    /\ next_run' = [j \in JobSet |-> ScheduleNextRun(j, clock)]
    /\ main_pc' = "keep_alive"
    /\ sched_pc' = "poll"
    /\ UNCHANGED << not_scheduling, clock, started_at, pending, poll_time,
                    running, runs, failed, busy_runs,
                    posting_times >>

\* run_pending() is called: the runnable jobs are collected.
run_pending ==
    /\ sched_pc = "poll"
    /\ pending' = SortJobs({ j \in JobSet : ShouldRun(j, clock) })
    /\ poll_time' = clock
    /\ sched_pc' = "dispatch"
    /\ UNCHANGED << not_scheduling, clock, started_at, main_pc, next_run,
                    running, runs, failed, busy_runs,
                    posting_times >>

\* Mutant of job_start: the job is handed to a thread of its own.
job_start_threaded ==
    /\ sched_pc = "dispatch"
    /\ pending # << >>
    /\ running' = running \cup { Head(pending) }
    /\ pending' = Tail(pending)
    /\ UNCHANGED << not_scheduling, clock, started_at, main_pc, sched_pc,
                    next_run, poll_time, runs, failed, busy_runs,
                    posting_times >>

\* The scheduler thread calls the next runnable job's action.
job_start ==
    /\ sched_pc = "dispatch"
    /\ pending # << >>
    /\ running' = running \cup { Head(pending) }
    /\ sched_pc' = "job"
    /\ UNCHANGED << not_scheduling, clock, started_at, main_pc, next_run,
                    pending, poll_time, runs, failed, busy_runs,
                    posting_times >>

\* The job's action ends after d seconds, normally or in its except branch;
\* the job gets its next next_run.
job_return ==
    /\ sched_pc = "job"
    /\ \E d \in Durations, e \in { "none", "error" } :
        /\ d > 0 => busy_runs < MaxBusyRuns
        /\ busy_runs' = IF d > 0 THEN busy_runs + 1 ELSE busy_runs
        /\ clock' = clock + d
        /\ failed' = IF e = "none" THEN failed ELSE failed \cup { Head(pending) }
        /\ IF Escaping(e) = "none"
           THEN /\ next_run' = [next_run EXCEPT ![Head(pending)] =
                                   ScheduleNextRun(Head(pending), clock + d)]
                /\ sched_pc' = "dispatch"
           ELSE /\ next_run' = next_run
                /\ sched_pc' = "dead"
    /\ runs' = [runs EXCEPT ![Head(pending)] = @ + 1]
    /\ running' = running \ { Head(pending) }
    /\ pending' = Tail(pending)
    /\ UNCHANGED << not_scheduling, started_at, main_pc, poll_time,
                    posting_times >>

\* run_pending() has returned: time.sleep(60).
sleep ==
    /\ sched_pc = "dispatch"
    /\ pending = << >>
    /\ clock - started_at < MaxHours * Hour
    /\ clock' = clock + PollInterval
    /\ sched_pc' = "poll"
    /\ UNCHANGED << not_scheduling, started_at, main_pc, next_run, pending,
                    poll_time, running, runs, failed, busy_runs,
                    posting_times >>

InitSchedule ==
    /\ TwitterAPIInit(DefaultMaxRetries, DefaultRetryDelay)
    /\ RotationInit
    /\ JobInit
    /\ \E t \in StartTimes, v \in PostingTimesValues : SchedulingInitEnv(t, v)
    /\ CollectingInit({}, {})
    /\ StartupDone

NextSchedule ==
    \/ run
    \/ run_pending
    \/ job_start
    \/ job_return
    \/ sleep

SpecSchedule == InitSchedule /\ [][NextSchedule]_vars

(***************************************************************************)
(* Vocabulary of the scheduling properties.                                *)
(***************************************************************************)
Elapsed == clock - started_at

\* run_pending() has run every job it collected and has returned.
PollComplete == sched_pc = "dispatch" /\ pending = << >>

\* No job run has taken time: the polls are PollInterval apart.
FixedCadence == busy_runs = 0

\* No job was due at the last poll and is still waiting to be run.
NoJobOverdue == \A j \in JobSet : next_run[j] > poll_time

(***************************************************************************)
(* C15: with the daily job at 09:00 and the interval job every 2 hours,    *)
(* polled every 60 seconds, the polls of 24 hours (the one at the 24-hour  *)
(* instant included) run the daily job exactly once and the interval job   *)
(* exactly 12 times; on the way the interval job has run once per full     *)
(* period elapsed and the daily job at most once.                          *)
(***************************************************************************)
C15_DailyOnceIntervalTwelve ==
    (PollComplete /\ FixedCadence /\ Elapsed <= Day) =>
        /\ runs[Jobs[3]] = Elapsed \div (IntervalHours * Hour)
        /\ runs[Jobs[1]] <= 1
        /\ Elapsed = Day => runs[Jobs[1]] = 1 /\ runs[Jobs[3]] = 12

\* The sweep that starts exactly at 09:00:00 has ended.
C15_Witness ==
    /\ PollComplete
    /\ FixedCadence
    /\ started_at = HHMM(9, 0)
    /\ Elapsed = Day
    /\ runs[Jobs[1]] = 1
    /\ runs[Jobs[3]] = 12

(***************************************************************************)
(* C16: at most one job action is executing at any time.                   *)
(***************************************************************************)
C16_OneJobAtATime == Cardinality(running) <= 1

\* One job is executing while another one, due at the same poll, waits.
C16_Witness ==
    /\ Cardinality(running) = 1
    /\ Len(pending) >= 2
    /\ Head(pending) \in running

(***************************************************************************)
(* C17: after a job action has failed with an error the scheduler thread   *)
(* is still in its loop, and every poll it completes has run every job     *)
(* that was due at that poll.                                              *)
(***************************************************************************)
C17_FailureDoesNotStopScheduler ==
    failed # {} =>
        /\ sched_pc \in { "poll", "dispatch", "job" }
        /\ PollComplete => NoJobOverdue

\* Every job has failed at some run, and the day's runs have all been made.
C17_Witness ==
    /\ failed = JobSet
    /\ PollComplete
    /\ runs[Jobs[1]] = 1
    /\ runs[Jobs[2]] = 1
    /\ runs[Jobs[3]] >= 12

(***************************************************************************)
(* MarketingScheduler.collect_metrics with EngagementTracker's             *)
(* get_best_performing_tweets and store_metrics.                           *)
(***************************************************************************)
MetricsLimit == 50      \* get_best_performing_tweets(limit=50)
MaxStored == 3          \* rows of table tweets in the database at the start

\* Rows of table tweets, and likes of the engagement_metrics rows found in
\* the database at the start.
TweetRow(i) == [id |-> i, content |-> Rep("a", 1), type |-> "regular", created_at |-> 0]
SampleLikes == { 0, 3 }
SnapshotRow(i, l) ==
    [tweet_id |-> i, likes |-> l, retweets |-> 0, replies |-> 0,
     impressions |-> 0, collected_at |-> 0]

\* get_best_performing_tweets: tweets JOIN engagement_metrics, one row per
\* tweet with the MAX of each metric, ordered by likes + retweets * 2 +
\* replies * 3 descending (ties in any order), at most limit rows.
SnapshotsOf(t) == { m \in db_metrics : m.tweet_id = t.id }
Joined == { t \in db_tweets : SnapshotsOf(t) # {} }
MaxOver(S) == CHOOSE x \in S : \A y \in S : x >= y
Score(t) ==
    MaxOver({ m.likes : m \in SnapshotsOf(t) })
      + MaxOver({ m.retweets : m \in SnapshotsOf(t) }) * 2
      + MaxOver({ m.replies : m \in SnapshotsOf(t) }) * 3
get_best_performing_tweets(limit) ==
    LET k == IF Cardinality(Joined) < limit THEN Cardinality(Joined) ELSE limit
    IN  { q \in [1..k -> Joined] :
            /\ \A i, j \in 1..k : i < j => q[i] # q[j] /\ Score(q[i]) >= Score(q[j])
            /\ \A t \in Joined :
                 (\A i \in 1..k : q[i] # t) => \A i \in 1..k : Score(q[i]) >= Score(t) }

\* What get_tweet_metrics hands back once it has succeeded: the dict it
\* builds.  None is what it hands back when it has not.
FetchedMetrics == { MetricsDict(m) : m \in SampleMetrics }

\* store_metrics reads these keys of its metrics argument (lines 91-95).
StoreMetricsKeys == { "likes", "retweets", "replies", "impressions", "collected_at" }

\* collect_metrics is called: the batch is read from the database.
collect_metrics_call ==
    /\ metrics_pc = "idle"
    /\ \E q \in get_best_performing_tweets(MetricsLimit) : recent_tweets' = q
    /\ metrics_index' = 1
    /\ metrics_pc' = "loop"
    /\ UNCHANGED << not_collecting, db_tweets, db_metrics, fetches, stored,
                    metrics_error >>

\* get_tweet_metrics returns None: `if metrics:` skips the item.
collect_metrics_fetch_none ==
    /\ metrics_pc = "loop"
    /\ metrics_index <= Len(recent_tweets)
    /\ fetches' = Append(fetches, [id |-> recent_tweets[metrics_index].id,
                                   metrics |-> None])
    /\ metrics_index' = metrics_index + 1
    /\ UNCHANGED << not_collecting, db_tweets, db_metrics, metrics_pc,
                    recent_tweets, stored, metrics_error >>

\* get_tweet_metrics returns a dict and store_metrics is called with it: it
\* inserts a row, or raises KeyError for a key the dict lacks, which ends
\* collect_metrics in its except branch.
collect_metrics_fetch_store ==
    /\ metrics_pc = "loop"
    /\ metrics_index <= Len(recent_tweets)
    /\ \E metrics \in FetchedMetrics :
        LET id == recent_tweets[metrics_index].id
        IN  /\ fetches' = Append(fetches, [id |-> id, metrics |-> metrics])
            /\ IF StoreMetricsKeys \subseteq DOMAIN metrics
               THEN LET row == [tweet_id |-> id, likes |-> metrics.likes,
                                retweets |-> metrics.retweets,
                                replies |-> metrics.replies,
                                impressions |-> metrics.impressions,
                                collected_at |-> metrics.collected_at]
                    IN  /\ db_metrics' = db_metrics \cup { row }
                        /\ stored' = Append(stored, row)
                        /\ metrics_index' = metrics_index + 1
                        /\ UNCHANGED << metrics_pc, metrics_error >>
               ELSE /\ metrics_error' = "KeyError"
                    /\ metrics_pc' = "done"
                    /\ UNCHANGED << db_metrics, stored, metrics_index >>
    /\ UNCHANGED << not_collecting, db_tweets, recent_tweets >>

\* The loop is over: the count is printed and collect_metrics returns.
collect_metrics_return ==
    /\ metrics_pc = "loop"
    /\ metrics_index > Len(recent_tweets)
    /\ metrics_pc' = "done"
    /\ UNCHANGED << not_collecting, db_tweets, db_metrics, recent_tweets,
                    metrics_index, fetches, stored, metrics_error >>

\* A database of up to MaxStored tweets, each with some snapshots or none.
InitMetrics ==
    /\ TwitterAPIInit(DefaultMaxRetries, DefaultRetryDelay)
    /\ RotationInit
    /\ JobInit
    /\ SchedulingInit(0)
    /\ StartupDone
    /\ \E n \in 0..MaxStored :
         \E M \in SUBSET { SnapshotRow(i, l) : i \in 1..n, l \in SampleLikes } :
             CollectingInit({ TweetRow(i) : i \in 1..n }, M)

NextMetrics ==
    \/ collect_metrics_call
    \/ collect_metrics_fetch_none
    \/ collect_metrics_fetch_store
    \/ collect_metrics_return

SpecMetrics == InitMetrics /\ [][NextMetrics]_vars

(***************************************************************************)
(* C18: a metrics collection run skips the items whose fetch failed, goes  *)
(* through its whole batch, and ends without an error having stored        *)
(* exactly one snapshot for each item whose fetch succeeded.               *)
(***************************************************************************)
Succeeded == SelectSeq(fetches, LAMBDA f : f.metrics # None)

C18_OneSnapshotPerSuccessfulFetch ==
    metrics_pc = "done" =>
        /\ Len(fetches) = Len(recent_tweets)
        /\ Len(stored) = Len(Succeeded)
        /\ \A i \in 1..Len(stored) : stored[i].tweet_id = Succeeded[i].id

(***************************************************************************)
(* main(): the check of the environment, then the scheduler.               *)
(***************************************************************************)
\* A value is not in the environment, is the empty string, or is set.
EnvValues == { "unset", "empty", "set" }

\* `not os.getenv(var)` is true of a value that is unset or empty.
Present(v) == env[v] = "set"

\* missing_vars = [var for var in required_vars if not os.getenv(var)].
missing_vars == SelectSeq(required_vars, LAMBDA v : ~Present(v))

\* The check: with a value missing the names are printed and the process
\* exits with status 1.
main_verify ==
    /\ startup_pc = "verify"
    /\ IF missing_vars # << >>
       THEN /\ reported' = missing_vars
            /\ exit_status' = 1
            /\ startup_pc' = "exited"
       ELSE /\ startup_pc' = "create"
            /\ UNCHANGED << reported, exit_status >>
    /\ UNCHANGED << not_startup, env, created >>

\* os.makedirs('data'), then MarketingScheduler(): its components are
\* constructed, or one of the constructors raises, which ends the process.
main_create ==
    /\ startup_pc = "create"
    /\ \/ /\ created' = { "data", "MarketingScheduler" }
          /\ startup_pc' = "run"
          /\ UNCHANGED exit_status
       \/ /\ created' = { "data" }
          /\ startup_pc' = "exited"
          /\ exit_status' = 1
    /\ UNCHANGED << not_startup, env, reported >>

\* scheduler.run(), which does not return.
main_run ==
    /\ startup_pc = "run"
    /\ startup_pc' = "running"
    /\ UNCHANGED << not_startup, env, reported, exit_status, created >>

\* main() entered with any environment.
InitStartup ==
    /\ TwitterAPIInit(DefaultMaxRetries, DefaultRetryDelay)
    /\ RotationInit
    /\ JobInit
    /\ SchedulingInit(0)
    /\ CollectingInit({}, {})
    /\ \E e \in [EnvNames -> EnvValues] : StartupInit(e)

NextStartup ==
    \/ main_verify
    \/ main_create
    \/ main_run

SpecStartup == InitStartup /\ [][NextStartup]_vars

(***************************************************************************)
(* C19: with any of the six required values absent the process prints      *)
(* exactly the names of the missing values and exits with a non-zero       *)
(* status, nothing having been created; with none missing startup goes on  *)
(* to create the scheduler.                                                *)
(***************************************************************************)
Absent == { v \in EnvNames : env[v] # "set" }

C19_MissingConfigurationIsFatal ==
    /\ created # {} => Absent = {}
    /\ startup_pc # "verify" =>
         IF Absent # {}
         THEN /\ startup_pc = "exited"
              /\ exit_status > 0
              /\ { reported[i] : i \in 1..Len(reported) } = Absent
              /\ Len(reported) = Cardinality(Absent)
              /\ created = {}
         ELSE /\ reported = << >>
              /\ startup_pc = "create" \/ created # {}

\* Two values are missing, one unset and one empty, and the process is gone.
C19_Witness ==
    /\ startup_pc = "exited"
    /\ env["TWITTER_BEARER_TOKEN"] = "unset"
    /\ env["OPENAI_API_KEY"] = "empty"
    /\ Len(reported) = 2
    /\ exit_status = 1

(***************************************************************************)
(* C20: a call of post_thread makes at most len(tweets) * (max_retries +   *)
(* 1) create-post calls, whatever the platform client answers.             *)
(***************************************************************************)
CreateCalls == { k \in 1..Len(calls) : calls[k].api = "create_tweet" }

C20_ThreadCallsBounded ==
    op = "post_thread" => Cardinality(CreateCalls) <= Len(tweets) * (max_retries + 1)

(***************************************************************************)
(* A posting job from its rotation step to the rows it stores, then a      *)
(* metrics collection run over the database the job has left.              *)
(***************************************************************************)
MaxPriorCalls == 5      \* get_next_focus_area calls made before the job

\* The rotation state n calls of get_next_focus_area after __init__.
RotationAfter(n) ==
    /\ current_category_index = n % Len(categories)
    /\ topic_indices =
         [c \in DOMAIN ai_focus_areas |->
            Cardinality({ i \in 0..(n - 1) : categories[(i % Len(categories)) + 1] = c })
              % Len(ai_focus_areas[c])]
    /\ focus_log = << >>

\* Mutant of StoredRow: the row gets store_tweet's default type.
StoredRow_DefaultType(tweet_data, tweet_type) ==
    [id |-> tweet_data.id, content |-> tweet_data.text, type |-> "regular",
     created_at |-> tweet_data.created_at]

\* The row store_tweet inserts into table tweets (lines 60-69).
StoredRow(tweet_data, tweet_type) ==
    [id |-> tweet_data.id, content |-> tweet_data.text, type |-> tweet_type,
     created_at |-> tweet_data.created_at]

\* A tweet posted and collected before: its id is none of the ids the
\* platform hands out during the job.
OldTweet == TweetRow(MaxCalls + 1)

\* The scheduler runs a posting job.
posting_job_call ==
    /\ job_name = "none"
    /\ metrics_pc = "idle"
    /\ post_expert_thread_call

\* thread_data = self.twitter_api.post_thread(tweets): the call.
post_expert_thread_post_thread ==
    /\ job_pc = "post"
    /\ post_thread_enter(job_tweets)
    /\ job_pc' = "posting"
    /\ UNCHANGED << rotation, job_name, focus_area, job_tweets, category,
                    thread_data, store_calls, job_error, scheduling, collecting,
                    startup >>

\* post_thread has returned; an empty result ends the job.
post_expert_thread_posted ==
    /\ job_pc = "posting"
    /\ pc = "done"
    /\ thread_data' = ret.items
    /\ IF ret.items # << >>
       THEN job_pc' = "store" /\ UNCHANGED job_error
       ELSE JobReturns("none")
    /\ UNCHANGED << not_posting, rotation, job_name, focus_area, job_tweets,
                    category, store_calls >>

\* The loop over thread_data with table tweets: store_tweet inserts the row
\* of each item until one call raises; a row whose id is already in the
\* table cannot be inserted.
post_expert_thread_store_rows ==
    /\ \E k \in 0..Len(thread_data) :
        /\ \A i \in 1..k : \A t \in db_tweets : t.id # thread_data[i].id
        /\ StoreLoop(k)
        /\ db_tweets' = db_tweets \cup
             { StoredRow(thread_data[i], TypeTag(job_name, category)) : i \in 1..k }
    /\ UNCHANGED << wrapper, scheduling, startup, db_metrics, metrics_pc,
                    recent_tweets, metrics_index, fetches, stored, metrics_error >>

\* The scheduler runs collect_metrics after the posting job.
metrics_job_call ==
    /\ job_name # "none"
    /\ job_pc = "idle"
    /\ collect_metrics_call

\* A scheduler that has made some rotation steps, over a database that is
\* empty or holds a tweet with a snapshot.
InitJobs ==
    /\ TwitterAPIInit(DefaultMaxRetries, DefaultRetryDelay)
    /\ \E n \in 0..MaxPriorCalls : RotationAfter(n)
    /\ JobInit
    /\ SchedulingInit(0)
    /\ StartupDone
    /\ \/ CollectingInit({}, {})
       \/ CollectingInit({ OldTweet }, { SnapshotRow(OldTweet.id, 3) })

NextJobs ==
    \/ posting_job_call
    \/ post_expert_thread_generate
    \/ post_expert_thread_generate_raise
    \/ post_expert_thread_label
    \/ post_expert_thread_post_thread
    \/ post_thread_skip
    \/ post_thread_ok
    \/ post_thread_nodata
    \/ post_thread_rate
    \/ post_thread_error
    \/ post_thread_return
    \/ post_expert_thread_posted
    \/ post_expert_thread_store_rows
    \/ metrics_job_call
    \/ collect_metrics_fetch_none
    \/ collect_metrics_fetch_store
    \/ collect_metrics_return

SpecJobs == InitJobs /\ [][NextJobs]_vars

(***************************************************************************)
(* C21: an item a posting job has published and stored, and that has no    *)
(* engagement snapshot yet, is in the batch of the metrics collection run  *)
(* that follows, while fewer than the limit of items are stored.           *)
(***************************************************************************)
BatchIds == { recent_tweets[i].id : i \in 1..Len(recent_tweets) }

C21_StoredItemIsCollected ==
    (metrics_pc # "idle" /\ Cardinality(db_tweets) < MetricsLimit) =>
        \A t \in db_tweets : SnapshotsOf(t) = {} => t.id \in BatchIds

(***************************************************************************)
(* C22: when every segment the generator returned is at most 280           *)
(* characters long and every create-post call returned post data, the job  *)
(* has published every segment, in order, as one reply chain rooted in the *)
(* first segment.                                                          *)
(***************************************************************************)
\* The list the generator returned: the job's tweets without the label.
Generated == [job_tweets EXCEPT ![1] = Tail(@)]

\* post_thread, called by the job, has returned.
JobThreadPosted == op = "post_thread" /\ pc = "done" /\ category # ""

C22_EverySegmentPublished ==
    ( /\ JobThreadPosted
      /\ \A i \in 1..Len(Generated) : StrLen(Generated[i]) <= MaxTweetLen
      /\ \A k \in 1..Len(calls) : IsData(calls[k]) ) =>
        /\ Len(Posted) = Len(job_tweets)
        /\ \A i \in 1..Len(Posted) :
            /\ Posted[i].text = job_tweets[i]
            /\ Posted[i].in_reply_to = (IF i = 1 THEN NoId ELSE Posted[i - 1].id)

(***************************************************************************)
(* C23: inside post_thread the retry counter belongs to the item: it       *)
(* counts the rate-limited calls of the item the loop is at and of no      *)
(* earlier item, the first wait of every item is the base delay, and an    *)
(* item is given up only after max_retries + 1 rate-limited calls of its   *)
(* own.                                                                    *)
(***************************************************************************)
C23_RetryStateIsPerItem ==
    op = "post_thread" =>
        /\ (pc = "post_thread" /\ index <= Len(tweets)) =>
              retry_count = Cardinality(RateCallsOf(index))
        /\ \A i \in 1..Len(tweets) :
              \A j \in 1..Len(WaitsOf(i)) :
                  /\ WaitsOf(i)[j].retry = j - 1
                  /\ j = 1 => WaitsOf(i)[j].wait_time = retry_delay
        /\ EndedOn("rate") =>
              Cardinality(RateCallsOf(LastCall.index)) = max_retries + 1

\* The second item is given up after retries of its own, the first item
\* having used a retry before it was posted.
C23_Witness ==
    /\ op = "post_thread"
    /\ EndedOn("rate")
    /\ LastCall.index = 2
    /\ WaitsOf(1) # << >>
    /\ Len(WaitsOf(2)) = max_retries
    /\ max_retries > 0
    /\ WaitsOf(2)[1].wait_time = retry_delay

(***************************************************************************)
(* C24: while a job action is executing, however long it takes, the        *)
(* scheduler thread starts no other job; a job whose time comes during     *)
(* the run is not lost: the first poll after the run dispatches it, so a   *)
(* completed poll leaves no job that was due at it, and a job is           *)
(* dispatched less than one poll interval plus the time taken by job runs  *)
(* after its time.                                                         *)
(***************************************************************************)
Lateness(j) == poll_time - next_run[j]

C24_NoDispatchDuringJobNoneLost ==
    [][ /\ running # {} => running' \subseteq running
        /\ PollComplete' => NoJobOverdue'
        /\ \A j \in running' :
              Lateness(j)' < PollInterval + MaxBusyRuns * JobSeconds ]_vars

\* The metrics job, whose time came while the morning job was executing,
\* is being run by the next poll.
C24_Witness ==
    /\ running = { Jobs[3] }
    /\ runs[Jobs[1]] = 1
    /\ busy_runs = 1
    /\ next_run[Jobs[3]] > HHMM(9, 0)
    /\ next_run[Jobs[3]] < HHMM(9, 0) + JobSeconds
    /\ Lateness(Jobs[3]) >= PollInterval

(***************************************************************************)
(* C25: after a posting job has finished, the items it handed to           *)
(* store_tweet are exactly the items post_thread returned to it, the       *)
(* published prefix of a truncated thread included, each has its row in    *)
(* table tweets once, with the type tag of the consumed category; nothing  *)
(* returned, nothing stored.  Stated as claimed, this is refuted by a      *)
(* store_tweet call that raises.                                           *)
(***************************************************************************)
JobFinished == job_name # "none" /\ job_pc = "idle"

\* What post_thread returned to the job, if the job came to call it.
Returned == IF op = "post_thread" /\ pc = "done" THEN ret.items ELSE << >>

\* The items of the job's store_tweet calls, in call order.
HandedOver == [i \in 1..Len(store_calls) |-> store_calls[i].tweet_data]

\* The item has one row in table tweets, tagged with the consumed category.
StoredOnce(item) ==
    /\ Cardinality({ t \in db_tweets : t.id = item.id }) = 1
    /\ \E t \in db_tweets :
          /\ t.id = item.id
          /\ t.content = item.text
          /\ t.type = TypeTag(job_name, Consumed.category)

C25_StoredExactlyReturned ==
    JobFinished =>
        /\ HandedOver = Returned
        /\ \A i \in 1..Len(Returned) : StoredOnce(Returned[i])

(***************************************************************************)
(* C25, amended: the items handed to store_tweet are a prefix of the       *)
(* items post_thread returned, each call with the type tag of the          *)
(* consumed category; only the last call can have raised, and it ends the  *)
(* job; when no call raised, the items handed over are exactly the         *)
(* returned ones and each has its row once; nothing returned, nothing      *)
(* stored.                                                                 *)
(***************************************************************************)
C25_StoredPrefixOfReturned ==
    JobFinished =>
        /\ Len(HandedOver) <= Len(Returned)
        /\ HandedOver = SubSeq(Returned, 1, Len(HandedOver))
        /\ \A i \in 1..Len(store_calls) :
              /\ store_calls[i].tweet_type = TypeTag(job_name, Consumed.category)
              /\ store_calls[i].raised => i = Len(store_calls)
              /\ ~store_calls[i].raised => StoredOnce(HandedOver[i])
        /\ (job_error = "store_tweet") <=>
              (store_calls # << >> /\ store_calls[Len(store_calls)].raised)
        /\ job_error # "store_tweet" =>
              /\ HandedOver = Returned
              /\ \A i \in 1..Len(Returned) : StoredOnce(Returned[i])
        /\ Returned = << >> => store_calls = << >>

\* The thread was cut short after its first item, and the job has stored
\* the item that was published.
C25_Witness ==
    /\ JobFinished
    /\ job_error = "none"
    /\ Len(job_tweets) = 2
    /\ Len(Returned) = 1
    /\ Len(store_calls) = 1
    /\ StoredOnce(Returned[1])

(***************************************************************************)
(* C26: the rotation state changes in one kind of step only, the call of   *)
(* get_next_focus_area that opens a posting job, and there by exactly one  *)
(* step: the consumed category's topic cursor and the category cursor      *)
(* each move on by one, wrapping.  No other step of the job, whether       *)
(* generation raises or the thread is cut short or storing fails, and no   *)
(* step of a metrics collection run changes it, so a job that was invoked  *)
(* has consumed one topic however it ended.                                *)
(***************************************************************************)
JobInvoked == job_pc = "idle" /\ job_pc' = "generate"

RotationStep ==
    LET c == categories[current_category_index + 1]
    IN  /\ current_category_index' = (current_category_index + 1) % Len(categories)
        /\ topic_indices' = [topic_indices EXCEPT ![c] = (@ + 1) % Len(ai_focus_areas[c])]
        /\ focus_log' = Append(focus_log,
              [category |-> c, topic |-> ai_focus_areas[c][topic_indices[c] + 1]])

C26_RotationMovedOnlyByJobCall ==
    [][ /\ JobInvoked => RotationStep
        /\ ~JobInvoked => UNCHANGED rotation
        /\ job_name' # "none" => Len(focus_log') = 1 ]_vars

\* A job whose generation raised has consumed its topic, and a metrics
\* collection run has been made after it.
C26_Witness ==
    /\ JobFinished
    /\ job_error = "generate"
    /\ Len(focus_log) = 1
    /\ current_category_index = 0
    /\ topic_indices[Consumed.category] = 1
    /\ fetches # << >>
    /\ metrics_pc = "done"

(***************************************************************************)
(* C27: once run() has registered the jobs, the daily posting jobs are     *)
(* registered at the times of day that posting_times holds: those of       *)
(* POSTING_TIMES when it is set, 09:00 and 15:00 when it is not.           *)
(***************************************************************************)
Digits == << "0", "1", "2", "3", "4", "5", "6", "7", "8", "9" >>
Digit(c) == (CHOOSE d \in 1..Len(Digits) : Digits[d] = c) - 1

\* The time of day that the characters HH:MM name, in seconds.
TimeOfDay(s) == HHMM(Digit(s[1]) * 10 + Digit(s[2]), Digit(s[4]) * 10 + Digit(s[5]))

\* The times of day at which the daily jobs are registered.
RegisteredTimes == { next_run[j] % Day : j \in DOMAIN AtTime }

C27_RegisteredAtPostingTimes ==
    main_pc = "keep_alive" =>
        RegisteredTimes = { TimeOfDay(posting_times[i]) : i \in 1..Len(posting_times) }

(***************************************************************************)
(* C28: post_tweet makes a create-post call if and only if the content is  *)
(* 1 to 280 characters long (a call is made of such content only, and by   *)
(* the time post_tweet returns one has been made): content of exactly 280  *)
(* characters is attempted, and empty content is rejected with None and    *)
(* without a call.                                                         *)
(***************************************************************************)
C28_CallIffLengthInRange ==
    op = "post_tweet" =>
        /\ calls # << >> => (1 <= StrLen(content) /\ StrLen(content) <= MaxTweetLen)
        /\ pc = "done" =>
              ((calls # << >>) <=> (1 <= StrLen(content) /\ StrLen(content) <= MaxTweetLen))
        /\ StrLen(content) = 0 => (pc = "done" /\ ret = None)
        /\ \A k \in 1..Len(calls) : calls[k].text = content

\* Content of exactly 280 characters has been posted.
C28_Witness ==
    /\ Done("post_tweet")
    /\ StrLen(content) = MaxTweetLen
    /\ calls # << >>
    /\ IsData(LastCall)
    /\ ret # None

====
